---- MODULE Spec2Model ----
(***************************************************************************)
(* Model of SmartRAGChunker (src/transform.py): the hierarchical chunker   *)
(* that loads text sections, splits every section into parent chunks and   *)
(* every parent into child chunks, and numbers the chunks globally.        *)
(*                                                                         *)
(* Text is modelled as a sequence of one-character strings so that len,    *)
(* slicing, strip, str.split and re.split are computed character by        *)
(* character as Python computes them; section names and chunk ids are      *)
(* character sequences too, built as the f-strings build them.             *)
(* The default sizes of the code (1200/400/50/100 characters) are   *)
(* far beyond what can be enumerated; the configuration is drawn from a    *)
(* small range instead, and the code's arithmetic on it is unchanged.      *)
(***************************************************************************)
EXTENDS Integers, Sequences, FiniteSets, TLC

(***************************************************************************)
(* Bounds of the model.                                                    *)
(***************************************************************************)
MaxLen == 5         \* longest raw text whose split is examined on its own
MaxFile == 4        \* most raw characters of the file of a one-file folder
MaxPair == 3        \* most raw characters, in all, of the files of a two-file folder
MaxSize == 3        \* largest chunk size / overlap of a configuration
MaxFirst == 2       \* longest first paragraph of a two-paragraph text
MaxSecond == 3      \* longest second paragraph of a two-paragraph text

(***************************************************************************)
(* Characters.  "a" stands for any word character, "." for the sentence    *)
(* enders [.!?], " " and "\n" for the whitespace class \s.                 *)
(***************************************************************************)
Alphabet == {"a", ".", " ", "\n"}
Whitespace == {" ", "\n"}
SentenceEnd == {".", "!", "?"}

Texts(n) == UNION {[1..k -> Alphabet] : k \in 0..n}

(***************************************************************************)
(* Python string primitives.                                               *)
(***************************************************************************)
RECURSIVE LStrip(_)
LStrip(s) ==
    IF s = <<>> THEN s
    ELSE IF Head(s) \in Whitespace THEN LStrip(Tail(s)) ELSE s

RECURSIVE RStrip(_)
RStrip(s) ==
    IF s = <<>> THEN s
    ELSE IF s[Len(s)] \in Whitespace THEN RStrip(SubSeq(s, 1, Len(s) - 1)) ELSE s

\* str.strip()
Strip(s) == RStrip(LStrip(s))

\* s[-n:] for n > 0
Tail_n(s, n) == IF Len(s) <= n THEN s ELSE SubSeq(s, Len(s) - n + 1, Len(s))

\* str.split('\n\n'): leftmost, non-overlapping occurrences of the separator
RECURSIVE SplitParaAcc(_, _)
SplitParaAcc(rest, cur) ==
    IF rest = <<>> THEN <<cur>>
    ELSE IF Len(rest) >= 2 /\ rest[1] = "\n" /\ rest[2] = "\n"
         THEN <<cur>> \o SplitParaAcc(SubSeq(rest, 3, Len(rest)), <<>>)
         ELSE SplitParaAcc(Tail(rest), Append(cur, Head(rest)))

SplitParagraphs(s) == SplitParaAcc(s, <<>>)

\* re.split(r'(?<=[.!?])\s+', s): cut at every maximal whitespace run that
\* directly follows a sentence ender; the run itself is dropped
RECURSIVE SplitSentAcc(_, _)
SplitSentAcc(rest, cur) ==
    IF rest = <<>> THEN <<cur>>
    ELSE IF cur # <<>> /\ cur[Len(cur)] \in SentenceEnd /\ Head(rest) \in Whitespace
         THEN <<cur>> \o SplitSentAcc(LStrip(rest), <<>>)
         ELSE SplitSentAcc(Tail(rest), Append(cur, Head(rest)))

SplitSentences(s) == SplitSentAcc(s, <<>>)

(***************************************************************************)
(* _smart_split_content.  The loop state is the pair (chunks, current      *)
(* chunk); SentenceStep is the body of the inner loop over the sentences   *)
(* of an over-long paragraph, ParagraphStep the body of the outer loop.    *)
(***************************************************************************)
\* SentenceStep with the size test of line 332 looking at the sentence alone
SentenceStepIgnoresAccumulator(st, sentence, target_size, overlap) ==
    IF Len(sentence) <= target_size
    THEN [st EXCEPT !.temp_chunk =
            IF st.temp_chunk # <<>> THEN st.temp_chunk \o <<" ">> \o sentence
            ELSE sentence]
    ELSE IF st.temp_chunk # <<>>
         THEN [chunks |-> Append(st.chunks, Strip(st.temp_chunk)),
               temp_chunk |->
                   IF overlap > 0
                   THEN (IF Len(st.temp_chunk) > overlap
                         THEN Tail_n(st.temp_chunk, overlap)
                         ELSE st.temp_chunk) \o <<" ">> \o sentence
                   ELSE sentence]
         ELSE [chunks |-> Append(st.chunks, Strip(sentence)),
               temp_chunk |-> <<>>]

SentenceStep(st, sentence, target_size, overlap) ==
    IF Len(st.temp_chunk \o <<" ">> \o sentence) <= target_size
    THEN [st EXCEPT !.temp_chunk =
            IF st.temp_chunk # <<>> THEN st.temp_chunk \o <<" ">> \o sentence
            ELSE sentence]
    ELSE IF st.temp_chunk # <<>>
         THEN [chunks |-> Append(st.chunks, Strip(st.temp_chunk)),
               temp_chunk |->
                   IF overlap > 0
                   THEN (IF Len(st.temp_chunk) > overlap
                         THEN Tail_n(st.temp_chunk, overlap)
                         ELSE st.temp_chunk) \o <<" ">> \o sentence
                   ELSE sentence]
         ELSE [chunks |-> Append(st.chunks, Strip(sentence)),
               temp_chunk |-> <<>>]

RECURSIVE SentenceLoop(_, _, _, _, _)
SentenceLoop(st, sentences, i, target_size, overlap) ==
    IF i > Len(sentences) THEN st
    ELSE SentenceLoop(SentenceStep(st, sentences[i], target_size, overlap),
                      sentences, i + 1, target_size, overlap)

\* EmitAndReseed without the append of line 315
EmitAndReseedForgetsEmit(st, overlap) ==
    IF st.current_chunk # <<>>
    THEN [chunks |-> st.chunks,
          current_chunk |->
              IF overlap > 0 /\ Len(st.current_chunk) > overlap
              THEN LET sentences == SplitSentences(Tail_n(st.current_chunk, overlap))
                   IN  sentences[Len(sentences)]
              ELSE <<>>]
    ELSE st

\* lines 314-323: emit the accumulator and reseed it with the overlap tail
EmitAndReseed(st, overlap) ==
    IF st.current_chunk # <<>>
    THEN [chunks |-> Append(st.chunks, Strip(st.current_chunk)),
          current_chunk |->
              IF overlap > 0 /\ Len(st.current_chunk) > overlap
              THEN LET sentences == SplitSentences(Tail_n(st.current_chunk, overlap))
                   IN  sentences[Len(sentences)]
              ELSE <<>>]
    ELSE st

\* ParagraphStep with the size test of line 310 looking at the paragraph
\* alone
ParagraphStepIgnoresAccumulator(st, para, target_size, overlap) ==
    LET test_chunk == IF st.current_chunk # <<>>
                      THEN st.current_chunk \o <<"\n", "\n">> \o para
                      ELSE para
    IN  IF Len(para) <= target_size
        THEN [st EXCEPT !.current_chunk = test_chunk]
        ELSE LET e == EmitAndReseed(st, overlap)
             IN  IF Len(para) > target_size
                 THEN LET r == SentenceLoop([chunks |-> e.chunks,
                                             temp_chunk |-> e.current_chunk],
                                            SplitSentences(para), 1,
                                            target_size, overlap)
                      IN  [chunks |-> r.chunks, current_chunk |-> r.temp_chunk]
                 ELSE [e EXCEPT !.current_chunk = para]

ParagraphStep(st, para, target_size, overlap) ==
    LET test_chunk == IF st.current_chunk # <<>>
                      THEN st.current_chunk \o <<"\n", "\n">> \o para
                      ELSE para
    IN  IF Len(test_chunk) <= target_size
        THEN [st EXCEPT !.current_chunk = test_chunk]
        ELSE LET e == EmitAndReseed(st, overlap)
             IN  IF Len(para) > target_size
                 THEN LET r == SentenceLoop([chunks |-> e.chunks,
                                             temp_chunk |-> e.current_chunk],
                                            SplitSentences(para), 1,
                                            target_size, overlap)
                      IN  [chunks |-> r.chunks, current_chunk |-> r.temp_chunk]
                 ELSE [e EXCEPT !.current_chunk = para]

RECURSIVE ParagraphLoop(_, _, _, _, _)
ParagraphLoop(st, paragraphs, i, target_size, overlap) ==
    IF i > Len(paragraphs) THEN st
    ELSE ParagraphLoop(ParagraphStep(st, paragraphs[i], target_size, overlap),
                       paragraphs, i + 1, target_size, overlap)

\* the closing list comprehension: keep the chunks that are not blank
NonBlank(chunks) == SelectSeq(chunks, LAMBDA c : Strip(c) # <<>>)

SmartSplitContent(content, target_size, overlap) ==
    LET st == ParagraphLoop([chunks |-> <<>>, current_chunk |-> <<>>],
                            SplitParagraphs(content), 1, target_size, overlap)
        chunks == IF st.current_chunk # <<>>
                  THEN Append(st.chunks, Strip(st.current_chunk))
                  ELSE st.chunks
    IN  NonBlank(chunks)

(***************************************************************************)
(* load_sections and its helpers.                                          *)
(***************************************************************************)
WordChar == {"a", "b", "A", "B", "_"}
Lower(c) == IF c = "A" THEN "a" ELSE IF c = "B" THEN "b" ELSE c

\* re.sub(r'\s+', '_', s)
RECURSIVE SubSpaces(_)
SubSpaces(s) ==
    IF s = <<>> THEN s
    ELSE IF Head(s) \in Whitespace THEN <<"_">> \o SubSpaces(LStrip(s))
         ELSE <<Head(s)>> \o SubSpaces(Tail(s))

CleanSectionName(name) ==
    LET kept == SelectSeq(name, LAMBDA c : c \in WordChar \cup Whitespace \cup {"-"})
        under == SubSpaces(Strip(kept))
    IN  [i \in 1..Len(under) |-> Lower(under[i])]

\* re.sub(r'\n{3,}', '\n\n', s)
RECURSIVE SubBlankLines(_)
SubBlankLines(s) ==
    IF s = <<>> THEN s
    ELSE IF Len(s) >= 3 /\ s[1] = "\n" /\ s[2] = "\n" /\ s[3] = "\n"
         THEN LET rest == SubSeq(s, 4, Len(s))
                  RECURSIVE SkipNl(_)
                  SkipNl(t) == IF t # <<>> /\ Head(t) = "\n" THEN SkipNl(Tail(t)) ELSE t
              IN  <<"\n", "\n">> \o SubBlankLines(SkipNl(rest))
         ELSE <<Head(s)>> \o SubBlankLines(Tail(s))

\* re.sub(r'[ \t]+', ' ', s)
RECURSIVE SubBlanks(_)
SubBlanks(s) ==
    IF s = <<>> THEN s
    ELSE IF Head(s) = " "
         THEN LET RECURSIVE SkipSp(_)
                  SkipSp(t) == IF t # <<>> /\ Head(t) = " " THEN SkipSp(Tail(t)) ELSE t
              IN  <<" ">> \o SubBlanks(SkipSp(s))
         ELSE <<Head(s)>> \o SubBlanks(Tail(s))

\* re.sub(r' \n', '\n', s)
RECURSIVE SubTrailing(_)
SubTrailing(s) ==
    IF s = <<>> THEN s
    ELSE IF Len(s) >= 2 /\ s[1] = " " /\ s[2] = "\n"
         THEN <<"\n">> \o SubTrailing(SubSeq(s, 3, Len(s)))
         ELSE <<Head(s)>> \o SubTrailing(Tail(s))

\* _preprocess_content.  The alphabet has no code fence, no carriage return
\* and no acronym of domain_acronyms, so those substitutions find no match.
PreprocessContent(content) ==
    Strip(SubTrailing(SubBlanks(SubBlankLines(content))))

\* a dict as the sequence of its items in insertion order
DictKeys(d) == {d[i].key : i \in 1..Len(d)}
DictSet(d, k, v) ==
    IF k \in DictKeys(d)
    THEN [i \in 1..Len(d) |-> IF d[i].key = k THEN [key |-> k, value |-> v] ELSE d[i]]
    ELSE Append(d, [key |-> k, value |-> v])

\* one iteration of the loop over the files (lines 90-111)
LoadFile(secs, file, cfg) ==
    LET section_name == CleanSectionName(file.stem)
        content == Strip(file.raw)
    IN  IF Len(content) < cfg.min_chunk_size THEN secs
        ELSE DictSet(secs, section_name, PreprocessContent(content))

RECURSIVE LoadFiles(_, _, _, _)
LoadFiles(secs, txt_files, i, cfg) ==
    IF i > Len(txt_files) THEN secs
    ELSE LoadFiles(LoadFile(secs, txt_files[i], cfg), txt_files, i + 1, cfg)

(***************************************************************************)
(* Chunk records.                                                          *)
(***************************************************************************)
Digits == <<"0", "1", "2", "3", "4", "5", "6", "7", "8", "9">>

\* str(n) of an f-string, n >= 0
RECURSIVE Str(_)
Str(n) == IF n < 10 THEN <<Digits[n + 1]>>
          ELSE Str(n \div 10) \o <<Digits[(n % 10) + 1]>>

\* hashlib.md5(text.encode()).hexdigest()[:8]: the digest is not computed;
\* a fingerprint is identified by the text that was hashed
Md5Hex8(text) == [md5_of |-> text]

ParentChunk(section_name, i, text) ==
    [chunk_id |-> section_name \o <<"_", "P">> \o Str(i),
     level |-> "parent",
     section_name |-> section_name,
     chunk_index |-> i,
     content |-> text,
     char_count |-> Len(text),
     estimated_tokens |-> Len(text) \div 4,
     content_hash |-> Md5Hex8(text)]

CreateParentChunks(section_name, content, cfg) ==
    IF Len(content) <= cfg.parent_chunk_size
    THEN <<ParentChunk(section_name, 1, content)>>
    ELSE LET chunks == SmartSplitContent(content, cfg.parent_chunk_size,
                                         cfg.overlap_size)
         IN  [i \in 1..Len(chunks) |-> ParentChunk(section_name, i, chunks[i])]

\* ChildChunk with the 0-based parent position in the id
ChildChunkZeroBased(section_name, parent_chunk, parent_idx, i, text, hashed) ==
    [chunk_id |-> section_name \o <<"_", "P">> \o Str(parent_idx)
                               \o <<"_", "C">> \o Str(i),
     level |-> "child",
     section_name |-> section_name,
     parent_id |-> parent_chunk.chunk_id,
     chunk_index |-> i,
     content |-> text,
     char_count |-> Len(text),
     estimated_tokens |-> Len(text) \div 4,
     content_hash |-> Md5Hex8(hashed)]

\* the dict built at lines 267-277 and at lines 283-293; hashed is the text
\* handed to md5
ChildChunk(section_name, parent_chunk, parent_idx, i, text, hashed) ==
    [chunk_id |-> section_name \o <<"_", "P">> \o Str(parent_idx + 1)
                               \o <<"_", "C">> \o Str(i),
     level |-> "child",
     section_name |-> section_name,
     parent_id |-> parent_chunk.chunk_id,
     chunk_index |-> i,
     content |-> text,
     char_count |-> Len(text),
     estimated_tokens |-> Len(text) \div 4,
     content_hash |-> Md5Hex8(hashed)]

CreateChildChunks(section_name, parent_chunk, parent_idx, cfg) ==
    LET content == parent_chunk.content
    IN  IF Len(content) <= cfg.child_chunk_size
        THEN <<ChildChunk(section_name, parent_chunk, parent_idx, 1, content, content)>>
        ELSE LET chunks == SmartSplitContent(content, cfg.child_chunk_size,
                                             cfg.overlap_size)
             IN  [i \in 1..Len(chunks) |->
                    ChildChunk(section_name, parent_chunk, parent_idx, i,
                               chunks[i], content)]

(***************************************************************************)
(* create_hierarchical_chunks.                                             *)
(***************************************************************************)
RECURSIVE Flatten(_)
Flatten(ss) == IF ss = <<>> THEN <<>> ELSE Head(ss) \o Flatten(Tail(ss))

\* RunStart without the resets of lines 180-181
RunStartKeepsChunks(self_hierarchical_chunks, self_all_chunks) ==
    [hierarchical_chunks |-> self_hierarchical_chunks,
     all_chunks |-> self_all_chunks,
     global_id |-> 1]

\* lines 180-182: what a run starts from, given what the object holds
RunStart(self_hierarchical_chunks, self_all_chunks) ==
    [hierarchical_chunks |-> <<>>, all_chunks |-> <<>>, global_id |-> 1]

\* lines 199-205: the children of every parent, and the parents linked to them
ChildrenOf(section_name, parent_chunks, cfg) ==
    [p \in 1..Len(parent_chunks) |->
        CreateChildChunks(section_name, parent_chunks[p], p - 1, cfg)]

\* parent_chunk['child_chunk_ids'] = ...; parent_chunk['child_count'] = ...
SetChildren(chunk, child_chunks) ==
    [chunk_id |-> chunk.chunk_id,
     level |-> chunk.level,
     section_name |-> chunk.section_name,
     chunk_index |-> chunk.chunk_index,
     content |-> chunk.content,
     char_count |-> chunk.char_count,
     estimated_tokens |-> chunk.estimated_tokens,
     content_hash |-> chunk.content_hash,
     child_chunk_ids |-> [c \in 1..Len(child_chunks) |-> child_chunks[c].chunk_id],
     child_count |-> Len(child_chunks)]

\* LinkParents handing every parent the children of the first one
LinkParentsToFirst(parent_chunks, children) ==
    [p \in 1..Len(parent_chunks) |-> SetChildren(parent_chunks[p], children[1])]

LinkParents(parent_chunks, children) ==
    [p \in 1..Len(parent_chunks) |-> SetChildren(parent_chunks[p], children[p])]

\* chunk['global_id'] = global_id
SetGlobalId(chunk, global_id) ==
    IF chunk.level = "parent"
    THEN [chunk_id |-> chunk.chunk_id,
          level |-> chunk.level,
          section_name |-> chunk.section_name,
          chunk_index |-> chunk.chunk_index,
          content |-> chunk.content,
          char_count |-> chunk.char_count,
          estimated_tokens |-> chunk.estimated_tokens,
          content_hash |-> chunk.content_hash,
          child_chunk_ids |-> chunk.child_chunk_ids,
          child_count |-> chunk.child_count,
          global_id |-> global_id]
    ELSE [chunk_id |-> chunk.chunk_id,
          level |-> chunk.level,
          section_name |-> chunk.section_name,
          parent_id |-> chunk.parent_id,
          chunk_index |-> chunk.chunk_index,
          content |-> chunk.content,
          char_count |-> chunk.char_count,
          estimated_tokens |-> chunk.estimated_tokens,
          content_hash |-> chunk.content_hash,
          global_id |-> global_id]

\* AssignGlobalIds with the counter restarted for every section
AssignGlobalIdsRestart(chunks, global_id) ==
    [k \in 1..Len(chunks) |-> SetGlobalId(chunks[k], k)]

\* lines 210-213: number the chunks of one section from global_id on
AssignGlobalIds(chunks, global_id) ==
    [k \in 1..Len(chunks) |-> SetGlobalId(chunks[k], global_id + k - 1)]

\* lines 191-196 and 210-215: the section record, and the run after the
\* section's chunks (parents first, then children) are numbered and stored
StoreSection(run, section_name, content, parent_chunks, child_chunks) ==
    LET numbered == AssignGlobalIds(parent_chunks \o child_chunks, run.global_id)
    IN  [hierarchical_chunks |->
            DictSet(run.hierarchical_chunks, section_name,
                    [section_name |-> section_name,
                     original_length |-> Len(content),
                     parent_chunks |-> SubSeq(numbered, 1, Len(parent_chunks)),
                     child_chunks |-> SubSeq(numbered, Len(parent_chunks) + 1,
                                             Len(numbered))]),
         all_chunks |-> run.all_chunks \o numbered,
         global_id |-> run.global_id + Len(numbered)]

\* lines 198-205
ChunkChildren(run, section_name, content, parent_chunks, children) ==
    StoreSection(run, section_name, content,
                 LinkParents(parent_chunks, children), Flatten(children))

ChunkParents(run, section_name, content, parent_chunks, cfg) ==
    ChunkChildren(run, section_name, content, parent_chunks,
                  ChildrenOf(section_name, parent_chunks, cfg))

\* the body of the loop over self.sections (lines 184-215)
ProcessSection(run, section_name, content, cfg) ==
    ChunkParents(run, section_name, content,
                 CreateParentChunks(section_name, content, cfg), cfg)

RECURSIVE ProcessSections(_, _, _, _)
ProcessSections(run, secs, i, cfg) ==
    IF i > Len(secs) THEN run
    ELSE ProcessSections(ProcessSection(run, secs[i].key, secs[i].value, cfg),
                         secs, i + 1, cfg)

RECURSIVE SumTokens(_)
SumTokens(chunks) ==
    IF chunks = <<>> THEN 0
    ELSE Head(chunks).estimated_tokens + SumTokens(Tail(chunks))

\* _calculate_optimization_metrics divides available_context by
\* avg_child_tokens * 4 (line 369); the average is 0 when there is no child
\* chunk and when every child chunk has fewer than 4 characters
MetricsOutcome(chunks) ==
    LET child_chunks == SelectSeq(chunks, LAMBDA c : c.level = "child")
    IN  IF SumTokens(child_chunks) = 0 THEN "ZeroDivisionError" ELSE "returned"

(***************************************************************************)
(* The chunker object and the calls made on it.                            *)
(***************************************************************************)
VARIABLES
    config,                 \* self.config
    source_folder,          \* self.source_folder: "None" until load_sections ran
    sections,               \* self.sections, an insertion-ordered dict
    hierarchical_chunks,    \* self.hierarchical_chunks
    all_chunks,             \* self.all_chunks
    outcome,                \* how the last create_hierarchical_chunks call ended
    prev_outcome,           \* history: outcome as the last call found it
    split_call,             \* arguments of a direct _smart_split_content call
    split_result,           \* and the list it returned
    walk                    \* the position and locals of that call, when it
                            \* is followed one loop iteration at a time

vars == <<config, source_folder, sections, hierarchical_chunks, all_chunks,
          outcome, prev_outcome, split_call, split_result, walk>>

ModelContextWindow == 4096

\* The configurations: any three sizes up to MaxSize; min_chunk_size keeps
\* the ratio 100 : 400 it has to the child size in __init__.
Configs ==
    {[parent_chunk_size |-> p, child_chunk_size |-> c, overlap_size |-> o,
      min_chunk_size |-> c \div 4,
      available_context |-> (ModelContextWindow * 70) \div 100] :
        p \in 1..MaxSize, c \in 1..MaxSize, o \in 0..MaxSize}

\* the configurations the chunker is started with: the child size does not
\* exceed the parent size, and the overlap ranges over 0..child size, so
\* that overlap = 0 and overlap = child size (both invalid according to the
\* specification) are among them
StartConfigs ==
    {cfg \in Configs : cfg.child_chunk_size <= cfg.parent_chunk_size
                       /\ cfg.overlap_size <= cfg.child_chunk_size}

ValidConfig(cfg) ==
    /\ 0 < cfg.overlap_size
    /\ cfg.overlap_size < cfg.child_chunk_size
    /\ cfg.child_chunk_size <= cfg.parent_chunk_size

\* the file stems of a source folder, in the order sorted(glob.glob(..))
\* lists them ("A" sorts before "b")
FirstStem == <<"A">>
SecondStem == <<"b">>

File(stem, raw) == [stem |-> stem, raw |-> raw]

\* the sorted file lists of the folders that hold no file, one file of at
\* most MaxFile raw characters, or two files of at most MaxPair in all
Folders ==
    {<<>>}
    \cup {<<File(stem, r)>> : stem \in {FirstStem, SecondStem}, r \in Texts(MaxFile)}
    \cup UNION {{<<File(FirstStem, r1), File(SecondStem, r2)>> :
                    r2 \in Texts(MaxPair - Len(r1))} : r1 \in Texts(MaxPair)}

NoCall == [content |-> <<>>, target_size |-> 0, overlap |-> 0]

\* no call is being followed
NoWalk == [pc |-> "idle", paragraphs |-> <<>>, p |-> 0, sentences |-> <<>>,
           s |-> 0, chunks |-> <<>>, current_chunk |-> <<>>,
           temp_chunk |-> <<>>, visited |-> <<>>, held |-> 0, news |-> <<>>]

\* __init__
Fresh ==
    /\ source_folder = "None"
    /\ sections = <<>>
    /\ hierarchical_chunks = <<>>
    /\ all_chunks = <<>>
    /\ outcome = "none"
    /\ prev_outcome = "none"

Init ==
    /\ config \in StartConfigs
    /\ Fresh
    /\ split_call = NoCall
    /\ split_result = <<>>
    /\ walk = NoWalk

\* load_sections(folder_path), called once on a chunker as process_documents
\* calls it; txt_files is the sorted list of the folder's files
LoadSections(txt_files) ==
    /\ source_folder = "None"
    /\ source_folder' = "set"
    /\ sections' = LoadFiles(sections, txt_files, 1, config)
    /\ UNCHANGED <<config, hierarchical_chunks, all_chunks, outcome,
                   prev_outcome, split_call, split_result, walk>>

\* create_hierarchical_chunks(), any number of times after load_sections
CreateHierarchicalChunks ==
    /\ source_folder = "set"
    /\ LET run == ProcessSections(RunStart(hierarchical_chunks, all_chunks),
                                  sections, 1, config)
       IN  /\ hierarchical_chunks' = run.hierarchical_chunks
           /\ all_chunks' = run.all_chunks
           /\ outcome' = MetricsOutcome(run.all_chunks)
    /\ prev_outcome' = outcome
    /\ UNCHANGED <<config, source_folder, sections, split_call, split_result,
                   walk>>

Next ==
    \/ \E txt_files \in Folders : LoadSections(txt_files)
    \/ CreateHierarchicalChunks

Spec == Init /\ [][Next]_vars

(***************************************************************************)
(* _smart_split_content on its own: the text is any text load_sections can *)
(* produce from a raw text of at most MaxLen characters (a section, or a   *)
(* parent that is a whole section), the sizes are those of a configuration.*)
(***************************************************************************)
Contents == {PreprocessContent(Strip(r)) : r \in Texts(MaxLen)}

SplitInit ==
    /\ config \in {cfg \in StartConfigs :
                     /\ cfg.parent_chunk_size = 1
                     /\ cfg.overlap_size = 0}
    /\ Fresh
    /\ split_call \in {[content |-> t, target_size |-> n, overlap |-> o] :
                          t \in Contents, n \in 1..MaxSize, o \in 0..MaxSize}
    /\ split_call.overlap <= split_call.target_size
    \* lines 227/242 and 265/281: only a text longer than the size is split
    /\ Len(split_call.content) > split_call.target_size
    /\ split_result = <<"pending">>
    /\ walk = NoWalk

SmartSplitCall ==
    /\ split_result = <<"pending">>
    /\ split_result' = <<"returned",
                         SmartSplitContent(split_call.content,
                                           split_call.target_size,
                                           split_call.overlap)>>
    /\ UNCHANGED <<config, source_folder, sections, hierarchical_chunks,
                   all_chunks, outcome, prev_outcome, split_call, walk>>

SplitNext == SmartSplitCall

SplitSpec == SplitInit /\ [][SplitNext]_vars

(***************************************************************************)
(* _smart_split_content followed one loop iteration at a time: walk.p is   *)
(* the paragraph the outer for loop is at, walk.s the sentence the inner   *)
(* for loop is at, walk.visited the units the loops have been at so far    *)
(* (<<p, 0>> for paragraph p, <<p, s>> for its sentence s).  walk.held     *)
(* counts the paragraphs and sentences put into the accumulator since it   *)
(* was last emptied or reseeded, and walk.news[k] is that count at the     *)
(* time chunks[k] was appended.                                            *)
(***************************************************************************)
\* the texts followed: those of Contents, and the texts load_sections makes
\* of a paragraph of at most MaxFirst characters, a blank line and a
\* paragraph of at most MaxSecond characters
WalkContents ==
    Contents
    \cup {PreprocessContent(Strip(first \o <<"\n", "\n">> \o second)) :
             first \in Texts(MaxFirst), second \in Texts(MaxSecond)}

\* AfterSentence in a loop that tries the sentence again once the
\* accumulator has been emitted and reseeded
AfterSentenceRetry(s, emitted) == IF emitted THEN s ELSE s + 1

\* the for loops move on to the next sentence whether or not the iteration
\* emitted the accumulator
AfterSentence(s, emitted) == s + 1

WalkInit ==
    /\ config \in {cfg \in StartConfigs :
                     /\ cfg.parent_chunk_size = 1
                     /\ cfg.overlap_size = 0}
    /\ Fresh
    /\ split_call \in {[content |-> t, target_size |-> n, overlap |-> o] :
                          t \in WalkContents, n \in 1..MaxSize, o \in 0..MaxSize}
    /\ split_call.overlap <= split_call.target_size
    /\ Len(split_call.content) > split_call.target_size
    /\ split_result = <<"pending">>
    \* lines 300-304
    /\ walk = [pc |-> "paragraph",
               paragraphs |-> SplitParagraphs(split_call.content), p |-> 1,
               sentences |-> <<>>, s |-> 0,
               chunks |-> <<>>, current_chunk |-> <<>>, temp_chunk |-> <<>>,
               visited |-> <<>>, held |-> 0, news |-> <<>>]

\* lines 306-329 and 350: one iteration of the loop over the paragraphs, up
\* to the inner loop when the paragraph is too long
ParagraphIter ==
    /\ walk.pc = "paragraph"
    /\ walk.p <= Len(walk.paragraphs)
    /\ LET para == walk.paragraphs[walk.p]
           test_chunk == IF walk.current_chunk # <<>>
                         THEN walk.current_chunk \o <<"\n", "\n">> \o para
                         ELSE para
           e == EmitAndReseed([chunks |-> walk.chunks,
                               current_chunk |-> walk.current_chunk],
                              split_call.overlap)
           seen == Append(walk.visited, <<walk.p, 0>>)
           news == IF walk.current_chunk # <<>>
                   THEN Append(walk.news, walk.held)
                   ELSE walk.news
       IN  walk' =
             IF Len(test_chunk) <= split_call.target_size
             THEN [walk EXCEPT !.current_chunk = test_chunk,
                               !.p = walk.p + 1, !.visited = seen,
                               !.held = walk.held + 1]
             ELSE IF Len(para) > split_call.target_size
                  THEN [walk EXCEPT !.pc = "sentence",
                                    !.sentences = SplitSentences(para),
                                    !.s = 1,
                                    !.chunks = e.chunks,
                                    !.current_chunk = e.current_chunk,
                                    !.temp_chunk = e.current_chunk,
                                    !.visited = seen,
                                    !.held = 0, !.news = news]
                  ELSE [walk EXCEPT !.chunks = e.chunks,
                                    !.current_chunk = para,
                                    !.p = walk.p + 1, !.visited = seen,
                                    !.held = 1, !.news = news]
    /\ UNCHANGED <<config, source_folder, sections, hierarchical_chunks,
                   all_chunks, outcome, prev_outcome, split_call, split_result>>

\* lines 331-346: one iteration of the loop over the sentences
SentenceIter ==
    /\ walk.pc = "sentence"
    /\ walk.s <= Len(walk.sentences)
    /\ LET sentence == walk.sentences[walk.s]
           st == SentenceStep([chunks |-> walk.chunks,
                               temp_chunk |-> walk.temp_chunk],
                              sentence,
                              split_call.target_size, split_call.overlap)
           fits == Len(walk.temp_chunk \o <<" ">> \o sentence)
                      <= split_call.target_size
       IN  walk' = [walk EXCEPT
                      !.chunks = st.chunks,
                      !.temp_chunk = st.temp_chunk,
                      !.s = AfterSentence(walk.s,
                                          Len(st.chunks) > Len(walk.chunks)),
                      !.visited = Append(walk.visited, <<walk.p, walk.s>>),
                      !.held = IF fits THEN walk.held + 1
                               ELSE IF walk.temp_chunk # <<>> THEN 1 ELSE 0,
                      !.news = IF fits THEN walk.news
                               ELSE IF walk.temp_chunk # <<>>
                                    THEN Append(walk.news, walk.held)
                                    ELSE Append(walk.news, 1)]
    /\ UNCHANGED <<config, source_folder, sections, hierarchical_chunks,
                   all_chunks, outcome, prev_outcome, split_call, split_result>>

\* line 348: the sentences are exhausted, back to the loop over paragraphs
SentenceExit ==
    /\ walk.pc = "sentence"
    /\ walk.s > Len(walk.sentences)
    /\ walk' = [walk EXCEPT !.pc = "paragraph",
                            !.current_chunk = walk.temp_chunk,
                            !.p = walk.p + 1]
    /\ UNCHANGED <<config, source_folder, sections, hierarchical_chunks,
                   all_chunks, outcome, prev_outcome, split_call, split_result>>

\* lines 352-356: the paragraphs are exhausted, the last chunk and the return
WalkReturn ==
    /\ walk.pc = "paragraph"
    /\ walk.p > Len(walk.paragraphs)
    /\ LET chunks == IF walk.current_chunk # <<>>
                     THEN Append(walk.chunks, Strip(walk.current_chunk))
                     ELSE walk.chunks
       IN  /\ walk' = [walk EXCEPT !.pc = "done", !.chunks = chunks,
                                   !.news = IF walk.current_chunk # <<>>
                                            THEN Append(walk.news, walk.held)
                                            ELSE walk.news]
           /\ split_result' = <<"returned", NonBlank(chunks)>>
    /\ UNCHANGED <<config, source_folder, sections, hierarchical_chunks,
                   all_chunks, outcome, prev_outcome, split_call>>

WalkNext ==
    \/ ParagraphIter
    \/ SentenceIter
    \/ SentenceExit
    \/ WalkReturn

\* the interpreter keeps running the call
WalkSpec == WalkInit /\ [][WalkNext]_vars /\ WF_vars(WalkNext)

(***************************************************************************)
(* Vocabulary of the properties.                                           *)
(***************************************************************************)
Indices(seq) == 1..Len(seq)
ParentIndices == {i \in Indices(all_chunks) : all_chunks[i].level = "parent"}
ChildIndices == {i \in Indices(all_chunks) : all_chunks[i].level = "child"}

IsPrefix(p, s) == Len(p) <= Len(s) /\ SubSeq(s, 1, Len(p)) = p
IsSuffix(p, s) == Len(p) <= Len(s) /\ SubSeq(s, Len(s) - Len(p) + 1, Len(s)) = p
IsInfix(p, s) == \E k \in 0..(Len(s) - Len(p)) : SubSeq(s, k + 1, k + Len(p)) = p

SplitReturned == split_result[1] = "returned"
Segments == split_result[2]

\* C1: after create_hierarchical_chunks the i-th chunk of all_chunks has
\* global_id i (strictly increasing, contiguous from 1, never reset between
\* sections), and within a section every parent is numbered before every
\* child.
C1_GlobalSequence ==
    /\ \A i \in Indices(all_chunks) : all_chunks[i].global_id = i
    /\ \A i \in ParentIndices, j \in ChildIndices :
          all_chunks[i].section_name = all_chunks[j].section_name
              => all_chunks[i].global_id < all_chunks[j].global_id

\* two sections were chunked, the first into several parents
C1_Witness ==
    /\ outcome # "none"
    /\ ValidConfig(config)
    /\ Len(sections) = 2
    /\ \E i \in ParentIndices, j \in ChildIndices, k \in ParentIndices :
          /\ all_chunks[i].chunk_index = 2
          /\ i < j /\ j < k
          /\ all_chunks[k].section_name # all_chunks[i].section_name

\* C2: every child's parent_id is the chunk_id of exactly one parent of the
\* run, whose child_chunk_ids holds the child's id exactly once; a parent's
\* child_chunk_ids is the ordered list of the ids of the children that name
\* it, and child_count is its length.
C2_Linkage ==
    /\ \A j \in ChildIndices :
          /\ Cardinality({i \in ParentIndices :
                            all_chunks[i].chunk_id = all_chunks[j].parent_id}) = 1
          /\ \A i \in ParentIndices :
                all_chunks[i].chunk_id = all_chunks[j].parent_id
                    => Cardinality({k \in Indices(all_chunks[i].child_chunk_ids) :
                            all_chunks[i].child_chunk_ids[k] = all_chunks[j].chunk_id}) = 1
    /\ \A i \in ParentIndices :
          LET mine == SelectSeq(all_chunks,
                         LAMBDA c : c.level = "child"
                                    /\ c.parent_id = all_chunks[i].chunk_id)
          IN  /\ all_chunks[i].child_chunk_ids = [k \in Indices(mine) |-> mine[k].chunk_id]
              /\ all_chunks[i].child_count = Len(all_chunks[i].child_chunk_ids)

\* a run with several parents, one of them with several children
C2_Witness ==
    /\ outcome # "none"
    /\ ValidConfig(config)
    /\ Cardinality(ParentIndices) >= 2
    /\ \E i \in ParentIndices : all_chunks[i].child_count >= 2

\* the sentences of the paragraphs of a text: the units _smart_split_content
\* never cuts
Units(content) ==
    LET paragraphs == SplitParagraphs(content)
    IN  UNION {{SplitSentences(paragraphs[i])[k] :
                    k \in Indices(SplitSentences(paragraphs[i]))} :
               i \in Indices(paragraphs)}

\* the segment holds a sentence (or an unpunctuated paragraph) of the text
\* that alone exceeds the target size
OversizedAtomicUnit(segment, content, target_size) ==
    \E unit \in Units(content) :
        /\ Len(unit) > target_size
        /\ Strip(unit) # <<>>
        /\ IsInfix(Strip(unit), segment)

ValidSplitCall ==
    0 < split_call.overlap /\ split_call.overlap < split_call.target_size

\* C3 as claimed: but for the oversized atomic unit, a segment (the content
\* of a chunk) has at most target size + overlap characters.
C3_SizeWithinOverlap ==
    SplitReturned /\ ValidSplitCall =>
        \A i \in Indices(Segments) :
            \/ OversizedAtomicUnit(Segments[i], split_call.content,
                                   split_call.target_size)
            \/ Len(Segments[i]) <= split_call.target_size + split_call.overlap

\* C3 as amended: but for the oversized atomic unit, a segment has at most
\* target size + overlap + 1 characters: the overlap tail is joined to the
\* sentence that did not fit by one space (line 340).
C3_SizeWithinOverlapAndSpace ==
    SplitReturned /\ ValidSplitCall =>
        \A i \in Indices(Segments) :
            \/ OversizedAtomicUnit(Segments[i], split_call.content,
                                   split_call.target_size)
            \/ Len(Segments[i]) <= split_call.target_size + split_call.overlap + 1

\* a segment made of an overlap tail, a space and a sentence of exactly the
\* target size
C3_Witness ==
    /\ SplitReturned /\ ValidSplitCall
    /\ \E i \in Indices(Segments) :
          /\ ~OversizedAtomicUnit(Segments[i], split_call.content,
                                  split_call.target_size)
          /\ Len(Segments[i]) = split_call.target_size + split_call.overlap + 1

\* a text without its whitespace
Dewhite(text) == SelectSeq(text, LAMBDA c : c \notin Whitespace)

\* the segments from the i-th on spell out rest, once a prefix that repeats
\* the end of the segment before is taken off each of them
RECURSIVE Rebuilds(_, _, _)
Rebuilds(segs, i, rest) ==
    IF i > Len(segs) THEN rest = <<>>
    ELSE \E k \in 0..Len(segs[i]) :
            /\ i = 1 => k = 0
            /\ i > 1 => IsSuffix(SubSeq(segs[i], 1, k), segs[i - 1])
            /\ IsPrefix(SubSeq(segs[i], k + 1, Len(segs[i])), rest)
            /\ Rebuilds(segs, i + 1,
                        SubSeq(rest, Len(segs[i]) - k + 1, Len(rest)))

\* C4: the segments of a text, in order, each without the overlap prefix it
\* shares with the end of the segment before, spell out the text up to
\* whitespace: nothing is dropped, repeated outside an overlap, or reordered.
C4_Reconstruction ==
    SplitReturned =>
        Rebuilds([i \in Indices(Segments) |-> Dewhite(Segments[i])], 1,
                 Dewhite(split_call.content))

\* a split into three segments or more, the overlap in use
C4_Witness ==
    /\ SplitReturned /\ ValidSplitCall
    /\ Len(Segments) >= 3
    /\ \E i \in 2..Len(Segments) :
          \E k \in 1..Len(Segments[i]) :
              /\ k < Len(Segments[i])
              /\ IsSuffix(SubSeq(Segments[i], 1, k), Segments[i - 1])

\* the sizes are positive and 0 < overlap < child size <= parent size
ValidSizes(cfg) ==
    /\ cfg.parent_chunk_size > 0
    /\ cfg.child_chunk_size > 0
    /\ ValidConfig(cfg)

\* C5 as claimed (under a valid configuration): the content of every chunk
\* is non-empty after trimming, and a section whose content is empty or
\* blank has no chunk at all.
C5_NoEmptyChunk ==
    ValidSizes(config) =>
        /\ \A i \in Indices(all_chunks) : Strip(all_chunks[i].content) # <<>>
        /\ outcome # "none" =>
              \A k \in Indices(sections) :
                  Strip(sections[k].value) = <<>> =>
                      \A i \in Indices(all_chunks) :
                          all_chunks[i].section_name # sections[k].key

\* C6 as claimed: under a configuration that violates
\* 0 < overlap < child size <= parent size the call is rejected: it never
\* returns a chunk list.
C6_InvalidConfigRejected ==
    ~ValidSizes(config) => outcome # "returned"

\* C7 as claimed (of a call that returned, under a valid configuration):
\* content_hash is the fingerprint of the chunk's own
\* content, char_count is the length of the chunk's own content and
\* estimated_tokens is char_count divided by 4, rounded down.
C7_OwnContent ==
    ValidSizes(config) /\ outcome = "returned" =>
        \A i \in Indices(all_chunks) :
            /\ all_chunks[i].content_hash = Md5Hex8(all_chunks[i].content)
            /\ all_chunks[i].char_count = Len(all_chunks[i].content)
            /\ all_chunks[i].estimated_tokens = all_chunks[i].char_count \div 4

\* C8: a create_hierarchical_chunks call on a chunker that has already run
\* (its sections and configuration are those of the run before) leaves
\* all_chunks, hierarchical_chunks and the way the call ends as they were.
C8_RerunIdentical ==
    [][outcome # "none" =>
          /\ all_chunks' = all_chunks
          /\ hierarchical_chunks' = hierarchical_chunks
          /\ outcome' = outcome]_vars

\* the second call has been made, on sections that give several chunks
C8_Witness ==
    /\ prev_outcome # "none"
    /\ Len(sections) = 2
    /\ Len(all_chunks) > 4

\* C9: a text of two paragraphs, each no longer than the target size, that
\* is longer than the target size is split into exactly two segments, the
\* (trimmed) first paragraph and the (trimmed) second paragraph.
C9_ParagraphBoundary ==
    LET paragraphs == SplitParagraphs(split_call.content)
    IN  /\ SplitReturned
        /\ Len(paragraphs) = 2
        /\ Len(paragraphs[1]) <= split_call.target_size
        /\ Len(paragraphs[2]) <= split_call.target_size
        /\ Len(split_call.content) > split_call.target_size
        => Segments = <<Strip(paragraphs[1]), Strip(paragraphs[2])>>

\* two paragraphs of several characters, the first longer than the overlap
C9_Witness ==
    LET paragraphs == SplitParagraphs(split_call.content)
    IN  /\ SplitReturned /\ ValidSplitCall
        /\ Len(paragraphs) = 2
        /\ Len(paragraphs[1]) <= split_call.target_size
        /\ Len(paragraphs[2]) <= split_call.target_size
        /\ Len(paragraphs[1]) > split_call.overlap
        /\ Len(split_call.content) > split_call.target_size
        /\ Len(Segments) = 2

SectionParents(section_name) ==
    SelectSeq(all_chunks, LAMBDA c : c.level = "parent"
                                     /\ c.section_name = section_name)
ChildrenNaming(parent_id) ==
    SelectSeq(all_chunks, LAMBDA c : c.level = "child" /\ c.parent_id = parent_id)

\* C10: after a run, a section no longer than the parent size has exactly
\* one parent, with index 1, id "<section>_P1" and the trimmed section text
\* as content; a parent no longer than the child size has exactly one
\* child, with index 1, id "<section>_P<parent index>_C1" and the parent's
\* id as parent_id.
C10_SingleChunk ==
    outcome # "none" =>
        /\ \A k \in Indices(sections) :
              Len(sections[k].value) <= config.parent_chunk_size =>
                  LET parents == SectionParents(sections[k].key)
                  IN  /\ Len(parents) = 1
                      /\ parents[1].chunk_index = 1
                      /\ parents[1].chunk_id = sections[k].key \o <<"_", "P", "1">>
                      /\ parents[1].content = Strip(sections[k].value)
        /\ \A i \in ParentIndices :
              Len(all_chunks[i].content) <= config.child_chunk_size =>
                  LET children == ChildrenNaming(all_chunks[i].chunk_id)
                  IN  /\ Len(children) = 1
                      /\ children[1].chunk_index = 1
                      /\ children[1].chunk_id =
                            all_chunks[i].section_name \o <<"_", "P">>
                                \o Str(all_chunks[i].chunk_index) \o <<"_", "C", "1">>
                      /\ children[1].parent_id = all_chunks[i].chunk_id

\* a non-empty section that fits one child, hence one parent: both
\* short-circuits are taken under a valid configuration
C10_Witness ==
    /\ outcome # "none"
    /\ ValidConfig(config)
    /\ \E k \in Indices(sections) :
          /\ sections[k].value # <<>>
          /\ Len(sections[k].value) <= config.child_chunk_size
          /\ \E i \in ParentIndices :
                /\ all_chunks[i].section_name = sections[k].key
                /\ Len(ChildrenNaming(all_chunks[i].chunk_id)) = 1

\* C11 as claimed: under a valid configuration the metrics computation at
\* the end of create_hierarchical_chunks never divides by zero, whether the
\* chunk list has no child, no chunk at all, or children whose token
\* estimates are all zero: no call ends in a ZeroDivisionError.
C11_MetricsNeverDivideByZero ==
    ValidSizes(config) => outcome # "ZeroDivisionError"

\* the overlap tail of an emitted accumulator (lines 318-321): the last
\* sentence fragment of its last overlap characters
OverlapTail(emitted, overlap) ==
    LET sentences == SplitSentences(Tail_n(emitted, overlap))
    IN  sentences[Len(sentences)]

\* seed, a separator and the beginning of the paragraph's text
SeededStarts(seed, para) ==
    {Strip(seed \o sep \o SplitSentences(para)[1]) :
        sep \in {<<>>, <<" ">>, <<"\n", "\n">>}}

\* C12 as claimed: when the first paragraph, longer than the overlap, is
\* emitted because the second paragraph does not fit next to it, the
\* accumulator is reseeded with the overlap tail of the first paragraph, so
\* that the second segment begins with that tail followed by the text of
\* the second paragraph.
C12_OverlapReseed ==
    LET paragraphs == SplitParagraphs(split_call.content)
    IN  /\ SplitReturned /\ ValidSplitCall
        /\ Len(paragraphs) >= 2
        /\ Len(paragraphs[1]) <= split_call.target_size
        /\ Len(paragraphs[1]) > split_call.overlap
        /\ Len(paragraphs[1] \o <<"\n", "\n">> \o paragraphs[2])
              > split_call.target_size
        => /\ Len(Segments) >= 2
           /\ Segments[1] = Strip(paragraphs[1])
           /\ \E start \in SeededStarts(OverlapTail(paragraphs[1],
                                                    split_call.overlap),
                                        paragraphs[2]) :
                 IsPrefix(start, Segments[2])

\* C13 as claimed: a sentence of the text that alone exceeds the target size
\* is emitted verbatim as its own segment, whatever the accumulator held:
\* some segment is exactly that sentence.
C13_OversizedSentenceVerbatim ==
    SplitReturned /\ ValidSplitCall =>
        \A unit \in Units(split_call.content) :
            Len(unit) > split_call.target_size /\ Strip(unit) # <<>> =>
                \E i \in Indices(Segments) : Segments[i] = Strip(unit)

WalkDone == walk.pc = "done"

\* the units of the text the loops have to visit: every paragraph, and
\* every sentence of a paragraph longer than the target size
UnitsToVisit ==
    {<<p, 0>> : p \in Indices(walk.paragraphs)}
    \cup UNION {{<<p, s>> : s \in Indices(SplitSentences(walk.paragraphs[p]))} :
                  p \in {q \in Indices(walk.paragraphs) :
                            Len(walk.paragraphs[q]) > split_call.target_size}}

VisitedOnce ==
    \A i, j \in Indices(walk.visited) :
        i # j => walk.visited[i] # walk.visited[j]

\* the call followed step by step returns what SmartSplitContent computes
WalkAgrees ==
    WalkDone => Segments = SmartSplitContent(split_call.content,
                                             split_call.target_size,
                                             split_call.overlap)

\* C14: a _smart_split_content call runs to completion; no paragraph and no
\* sentence is visited twice, at the return every paragraph and every
\* sentence of an over-long paragraph has been visited, and the number of
\* segments is at most the number of visited units plus one.
C14_RunsToCompletion ==
    /\ <>WalkDone
    /\ [](VisitedOnce /\ WalkAgrees)
    /\ [](WalkDone =>
            /\ {walk.visited[i] : i \in Indices(walk.visited)} = UnitsToVisit
            /\ Len(Segments) <= Cardinality(UnitsToVisit) + 1)

\* a finished call under a valid configuration whose sentence loop emitted
\* and reseeded the accumulator
C14_Witness ==
    /\ WalkDone /\ ValidSplitCall
    /\ \E i \in Indices(walk.visited) : walk.visited[i][2] >= 2
    /\ Len(Segments) >= 3

\* C15 as claimed: every segment _smart_split_content emits holds at least
\* one paragraph or sentence put into the accumulator after the segment
\* before it was emitted: no segment is only the overlap tail carried over.
C15_NoOverlapOnlySegment ==
    ValidSplitCall =>
        /\ Len(walk.news) = Len(walk.chunks)
        /\ \A k \in Indices(walk.chunks) :
              Strip(walk.chunks[k]) # <<>> => walk.news[k] >= 1

====
